---- MODULE Spec2Model ----
(***************************************************************************)
(* AI News Perspectives: the home screen with its generation request       *)
(* (groqResponse: bounded retries with linear backoff), the article list   *)
(* screen (sanitizer, parser and normalizer of the generated text, vendor  *)
(* news) and the article screen (persona templates).                       *)
(*                                                                         *)
(* Text is a sequence of one-character strings.  Error messages and        *)
(* response bodies of the generation endpoint are sequences of words.      *)
(***************************************************************************)
EXTENDS Integers, Sequences, FiniteSets, TLC

\* ------------------------------------------------------------------ bounds
MaxInFlight == 2        \* generation calls the model tracks at the same time

\* ------------------------------------------------------- program constants
MAX_RETRIES == 3
RETRY_DELAY == 2000

\* ------------------------------------------------------------ text helpers
\* String.prototype.trim removes white space at both ends.
WhiteSpace == {" ", "\n", "\t"}

RECURSIVE TrimStart(_)
TrimStart(s) ==
  IF s # <<>> /\ Head(s) \in WhiteSpace THEN TrimStart(Tail(s)) ELSE s

RECURSIVE TrimEnd(_)
TrimEnd(s) ==
  IF s # <<>> /\ s[Len(s)] \in WhiteSpace
    THEN TrimEnd(SubSeq(s, 1, Len(s) - 1)) ELSE s

Trim(s) == TrimEnd(TrimStart(s))

\* String.prototype.includes on a message of words.
Includes(msg, w) == \E i \in 1..Len(msg) : msg[i] = w

\* !groqApiKey || groqApiKey.trim() === ''
KeyMissingNoTrim(key) == key = <<>>
KeyMissing(key) == key = <<>> \/ Trim(key) = <<>>

\* ------------------------------------------------------------ errors
Err(n, m) == [name |-> n, message |-> m]
NoErr == Err("none", <<>>)

MsgKeyNotSet ==
  <<"GROQ_API_KEY", "is", "not", "set.", "Please", "check", "your",
    "environment", "configuration.">>
MsgKeyNotConfigured ==
  <<"GROQ_API_KEY", "is", "not", "configured.", "Please", "check", "your",
    ".env", "file", "and", "restart", "the", "development", "server.">>
MsgUnavailableNoBody(status, body) ==
  <<"Groq", "service", "is", "temporarily unavailable", ".", "Please", "try",
    "again", "in", "a", "few", "minutes.", "(Error:", ToString(status), ")">>
MsgUnavailable(status, body) ==
  <<"Groq", "service", "is", "temporarily unavailable", ".", "Please", "try",
    "again", "in", "a", "few", "minutes.", "(Error:", ToString(status), "-">>
  \o body \o <<")">>
MsgApiError(status, body) ==
  <<"Groq", "API", "error:", ToString(status), "-">> \o body
MsgNetwork == <<"Network", "request", "failed">>
MsgNoChoices == <<"Cannot", "read", "property", "'0'", "of", "undefined">>
MsgJsonParse == <<"JSON", "Parse", "error:", "Unexpected", "token">>
MsgUndefinedOutput == <<"Cannot", "read", "property", "'1'", "of", "undefined">>

\* ------------------------------------------------- the generation endpoint
ErrorStatuses == {500, 503}
Bodies == {<<>>, <<"overloaded">>, <<"upstream", "fetch", "failed">>}
Contents == {<<"[", "]">>, <<"a", ".">>}
Keys == {<<>>, <<" ">>, <<"k">>}
Names == {<<>>, <<" ">>, <<" ", "A">>}

Outcome(k, st, b, j, c) ==
  [kind |-> k, status |-> st, body |-> b, json |-> j, content |-> c]

\* What one fetch can do: reject, answer a non-success status with a body,
\* or answer 200 with a body that decodes (or not) to choices[0].message.
FetchOutcomes ==
  {Outcome("reject", 0, <<>>, "none", <<>>)}
  \cup {Outcome("response", st, b, "none", <<>>) : st \in ErrorStatuses, b \in Bodies}
  \cup {Outcome("response", 200, <<>>, "syntax", <<>>),
        Outcome("response", 200, <<>>, "nochoices", <<>>)}
  \cup {Outcome("response", 200, <<>>, "ok", c) : c \in Contents}

ResponseOk(status) == status >= 200 /\ status <= 299

\* ------------------------------------------------------------ groqResponse
Step(a, d, e, c) == [act |-> a, delay |-> d, err |-> e, content |-> c]

BackoffConstant(attempt) == RETRY_DELAY
Backoff(attempt) == RETRY_DELAY * attempt

\* The try block of one attempt, from the settled fetch on.
TryBlockRetryOnLast(attempt, o) ==
  IF o.kind = "reject" THEN Step("throw", 0, Err("TypeError", MsgNetwork), <<>>)
  ELSE IF ~ResponseOk(o.status) THEN
    IF o.status = 503 THEN
      IF attempt <= MAX_RETRIES
        THEN Step("wait", Backoff(attempt), NoErr, <<>>)
        ELSE Step("throw", 0, Err("Error", MsgUnavailable(o.status, o.body)), <<>>)
    ELSE Step("throw", 0, Err("Error", MsgApiError(o.status, o.body)), <<>>)
  ELSE IF o.json = "syntax" THEN Step("throw", 0, Err("SyntaxError", MsgJsonParse), <<>>)
  ELSE IF o.json = "nochoices" THEN Step("throw", 0, Err("TypeError", MsgNoChoices), <<>>)
  ELSE Step("return", 0, NoErr, o.content)

TryBlock(attempt, o) ==
  IF o.kind = "reject" THEN Step("throw", 0, Err("TypeError", MsgNetwork), <<>>)
  ELSE IF ~ResponseOk(o.status) THEN
    IF o.status = 503 THEN
      IF attempt < MAX_RETRIES
        THEN Step("wait", Backoff(attempt), NoErr, <<>>)
        ELSE Step("throw", 0, Err("Error", MsgUnavailable(o.status, o.body)), <<>>)
    ELSE Step("throw", 0, Err("Error", MsgApiError(o.status, o.body)), <<>>)
  ELSE IF o.json = "syntax" THEN Step("throw", 0, Err("SyntaxError", MsgJsonParse), <<>>)
  ELSE IF o.json = "nochoices" THEN Step("throw", 0, Err("TypeError", MsgNoChoices), <<>>)
  ELSE Step("return", 0, NoErr, o.content)

CatchBlockAlwaysRetries(attempt, e) ==
  IF e.name = "TypeError" \/ Includes(e.message, "fetch")
    THEN Step("wait", Backoff(attempt), NoErr, <<>>)
    ELSE Step("throw", 0, e, <<>>)

\* The catch block: every error thrown in the try block passes through it.
CatchBlock(attempt, e) ==
  IF attempt < MAX_RETRIES /\ (e.name = "TypeError" \/ Includes(e.message, "fetch"))
    THEN Step("wait", Backoff(attempt), NoErr, <<>>)
    ELSE Step("throw", 0, e, <<>>)

Attempt(attempt, o) ==
  LET t == TryBlock(attempt, o)
  IN IF t.act = "throw" THEN CatchBlock(attempt, t.err) ELSE t

\* ------------------------------------------------------------------- state
VARIABLES
  harness,      \* "app": the home screen drives; "direct": groqResponse is called on its own
  groqApiKey,   \* Constants.expoConfig.extra.GROQ_API_KEY ?? ''
  personName,   \* HomeScreen state
  isLoading,    \* HomeScreen state
  error,        \* HomeScreen state: [null, msg]
  alerted,      \* the last press raised the 'Please enter a name' alert
  pushed,       \* the last router.push of the home screen
  calls,        \* groqResponse calls in flight
  last,         \* the groqResponse call that settled last
  nsParams,        \* NewsScreen: useLocalSearchParams(), [person, aiResponse]
  selectedPerson,  \* NewsScreen state
  articles,        \* NewsScreen state
  refreshing,      \* NewsScreen state
  pending,         \* NewsScreen: effects due after the last render, "ai" and "news"
  newsLoads,       \* NewsScreen: loadRealNews calls awaiting fetchNewsArticles
  rapidapi_key,    \* Constants.expoConfig.extra.RAPIDAPI_KEY ?? ''
  unhandled,       \* a loadRealNews promise rejected; nothing handles it
  asParams,        \* ArticleScreen: useLocalSearchParams(), [person, title, originalTitle, summary]
  asWrap,          \* ArticleScreen: which parameters arrived as arrays, and their further elements
  asBody,          \* ArticleScreen: what the render computed for the hero image and the article body
  crashed          \* NewsScreen: an effect threw

newsVars ==
  <<nsParams, selectedPerson, articles, refreshing, pending, newsLoads, crashed,
    rapidapi_key, unhandled>>

homeVars == <<harness, groqApiKey, personName, isLoading, error, alerted, pushed, calls, last>>

articleVars == <<asParams, asWrap, asBody>>
vars == <<homeVars, newsVars, articleVars>>

NullError == [null |-> TRUE, msg |-> <<>>]
ErrorOf(m) == [null |-> FALSE, msg |-> m]
NoPush == [done |-> FALSE, pathname |-> "", person |-> <<>>, aiResponse |-> <<>>]
\* What a settled call gave its caller: [aiModel, content], an error, or undefined.
Result(k, m, e, c) == [kind |-> k, model |-> m, err |-> e, content |-> c]
NoOutcome == Outcome("none", 0, <<>>, "none", <<>>)
Settled(call, r, o) ==
  [caller |-> call.caller, person |-> call.person, attempt |-> call.attempt,
   waits |-> call.waits, statuses |-> call.statuses, fetches |-> call.fetches,
   outcome |-> o, result |-> r]
NoCall ==
  [caller |-> "none", person |-> <<>>, attempt |-> 0, waits |-> <<>>,
   statuses |-> <<>>, fetches |-> 0, outcome |-> NoOutcome,
   result |-> Result("none", "", NoErr, <<>>)]

\* A call that passed the key check: the loop starts and issues the first fetch.
NewCall(who, name) ==
  [caller |-> who, person |-> name, aiModel |-> "llama3-8b-8192",
   attempt |-> 1, pc |-> "fetch",
   waits |-> <<>>, statuses |-> <<>>, fetches |-> 1]

Remove(s, i) == SubSeq(s, 1, i - 1) \o SubSeq(s, i + 1, Len(s))

HomeInit ==
  /\ harness \in {"app", "direct"}
  /\ groqApiKey \in Keys
  /\ personName = <<>>
  /\ isLoading = FALSE
  /\ error = NullError
  /\ alerted = FALSE
  /\ pushed = NoPush
  /\ calls = <<>>
  /\ last = NoCall

\* ----------------------------------------------------------------- actions
\* TextInput.onChangeText / a suggestion chip: both are off while loading.
SetPersonName ==
  /\ harness = "app"
  /\ ~isLoading
  /\ \E n \in Names : personName' = n
  /\ personName' # personName
  /\ UNCHANGED <<harness, groqApiKey, isLoading, error, alerted, pushed, calls, last>>
  /\ UNCHANGED <<newsVars, articleVars>>

\* The submit button: disabled={isLoading}.
SubmitAlwaysEnabled == TRUE
SubmitEnabled == ~isLoading

HandleSubmitNoTrim ==
  /\ harness = "app"
  /\ SubmitEnabled
  /\ Len(calls) < MaxInFlight
  /\ IF Trim(personName) = <<>> THEN
       /\ alerted' = TRUE
       /\ UNCHANGED <<isLoading, error, calls, last>>
     ELSE IF KeyMissing(groqApiKey) THEN
       /\ error' = ErrorOf(MsgKeyNotConfigured)
       /\ alerted' = FALSE
       /\ UNCHANGED <<isLoading, calls, last>>
     ELSE
       /\ isLoading' = TRUE
       /\ error' = NullError
       /\ alerted' = FALSE
       /\ calls' = Append(calls, NewCall("submit", personName))
       /\ UNCHANGED last
  /\ UNCHANGED <<harness, groqApiKey, personName, pushed>>
  /\ UNCHANGED <<newsVars, articleVars>>

\* handleSubmit up to its first suspension.
HandleSubmit ==
  /\ harness = "app"
  /\ SubmitEnabled
  /\ Len(calls) < MaxInFlight
  /\ IF Trim(personName) = <<>> THEN
       /\ alerted' = TRUE
       /\ UNCHANGED <<isLoading, error, calls, last>>
     ELSE IF KeyMissing(groqApiKey) THEN
       /\ error' = ErrorOf(MsgKeyNotConfigured)
       /\ alerted' = FALSE
       /\ UNCHANGED <<isLoading, calls, last>>
     ELSE
       /\ isLoading' = TRUE
       /\ error' = NullError
       /\ alerted' = FALSE
       /\ calls' = Append(calls, NewCall("submit", Trim(personName)))
       /\ UNCHANGED last
  /\ UNCHANGED <<harness, groqApiKey, personName, pushed>>
  /\ UNCHANGED <<newsVars, articleVars>>

AfterGroqKeepsLoading(call, r) ==
  IF call.caller # "submit" THEN UNCHANGED <<isLoading, error, pushed>>
  ELSE IF r.kind = "return" THEN
    /\ pushed' = [done |-> TRUE, pathname |-> "/news", person |-> call.person,
                  aiResponse |-> r.content]
    /\ UNCHANGED <<isLoading, error>>
  ELSE IF r.kind = "throw" THEN
    /\ isLoading' = FALSE
    /\ error' = ErrorOf(r.err.message)
    /\ UNCHANGED pushed
  ELSE
    /\ isLoading' = FALSE
    /\ error' = ErrorOf(MsgUndefinedOutput)
    /\ UNCHANGED pushed

\* The rest of handleSubmit, once its groqResponse call settled with r.
AfterGroq(call, r) ==
  IF call.caller # "submit" THEN UNCHANGED <<isLoading, error, pushed>>
  ELSE IF r.kind = "return" THEN
    /\ isLoading' = FALSE
    /\ pushed' = [done |-> TRUE, pathname |-> "/news", person |-> call.person,
                  aiResponse |-> r.content]
    /\ UNCHANGED error
  ELSE IF r.kind = "throw" THEN
    /\ isLoading' = FALSE
    /\ error' = ErrorOf(r.err.message)
    /\ UNCHANGED pushed
  ELSE \* groqOutput is undefined: groqOutput[1] throws inside the try
    /\ isLoading' = FALSE
    /\ error' = ErrorOf(MsgUndefinedOutput)
    /\ UNCHANGED pushed

\* groqResponse called on its own (not through the screen).
DirectCall ==
  /\ harness = "direct"
  /\ calls = <<>>
  /\ IF KeyMissing(groqApiKey)
       THEN /\ last' = [NoCall EXCEPT !.caller = "direct",
                          !.result = Result("throw", "", Err("Error", MsgKeyNotSet), <<>>)]
            /\ UNCHANGED calls
       ELSE /\ calls' = Append(calls, NewCall("direct", <<>>))
            /\ UNCHANGED last
  /\ UNCHANGED <<harness, groqApiKey, personName, isLoading, error, alerted, pushed>>
  /\ UNCHANGED <<newsVars, articleVars>>

\* A fetch settles: the attempt runs to its wait, its return or its throw.
FetchSettles ==
  \E i \in 1..Len(calls), o \in FetchOutcomes :
    LET c == calls[i]
        s == Attempt(c.attempt, o)
        c1 == [c EXCEPT !.statuses = Append(@, o.status)]
    IN /\ c.pc = "fetch"
       /\ IF s.act = "wait" THEN
            /\ calls' = [calls EXCEPT ![i] = [c1 EXCEPT !.pc = "wait",
                                                !.waits = Append(@, s.delay)]]
            /\ UNCHANGED <<last, isLoading, error, pushed>>
          ELSE
            LET r == Result(s.act, IF s.act = "return" THEN c.aiModel ELSE "",
                            s.err, s.content)
            IN /\ calls' = Remove(calls, i)
               /\ last' = Settled(c1, r, o)
               /\ AfterGroq(c1, r)
       /\ UNCHANGED <<harness, groqApiKey, personName, alerted>>
       /\ UNCHANGED <<newsVars, articleVars>>

\* The backoff timer fires: continue increments attempt and tests the loop.
WaitElapses ==
  \E i \in 1..Len(calls) :
    LET c == calls[i]
        c1 == [c EXCEPT !.attempt = @ + 1]
    IN /\ c.pc = "wait"
       /\ IF c1.attempt <= MAX_RETRIES THEN
            /\ calls' = [calls EXCEPT ![i] = [c1 EXCEPT !.pc = "fetch",
                                                !.fetches = @ + 1]]
            /\ UNCHANGED <<last, isLoading, error, pushed>>
          ELSE
            LET r == Result("undefined", "", NoErr, <<>>)
            IN /\ calls' = Remove(calls, i)
               /\ last' = Settled(c1, r, NoOutcome)
               /\ AfterGroq(c1, r)
       /\ UNCHANGED <<harness, groqApiKey, personName, alerted>>
       /\ UNCHANGED <<newsVars, articleVars>>



\* =========================================================================
\* The article list screen (NewsScreen)
\* =========================================================================
\* An absent value (undefined route parameter, missing property).
Undefined == <<"undefined">>

\* JavaScript truthiness of a string-or-undefined value.
Truthy(t) == t # Undefined /\ t # <<>>

\* The modelled part of U+0000..U+001F; "^A" stands for U+0001.
ControlChars == {"\n", "\t", "^A"}

\* "~" stands for the backquote U+0060, which a TLA+ string cannot hold.
Fence == <<"~", "~", "~">>
FenceJson == Fence \o <<"j", "s", "o", "n">>

StartsWithAt(s, i, pat) ==
  i + Len(pat) - 1 <= Len(s) /\ SubSeq(s, i, i + Len(pat) - 1) = pat

\* s.replace(/<pat>\n?/g, ''): leftmost matches, left to right, each with the
\* newline that follows it, if any.
RECURSIVE ReplaceFrom(_, _, _)
ReplaceFrom(s, i, pat) ==
  LET at == {k \in i..Len(s) : StartsWithAt(s, k, pat)}
  IN IF at = {} THEN SubSeq(s, i, Len(s))
     ELSE LET m == CHOOSE k \in at : \A l \in at : k <= l
              j == m + Len(pat)
          IN SubSeq(s, i, m - 1)
               \o ReplaceFrom(s, IF j <= Len(s) /\ s[j] = "\n" THEN j + 1 ELSE j, pat)

StripFence(s, pat) == ReplaceFrom(s, 1, pat)

\* s.replace(/[\u0000-\u001F]/g, '')
NotControl(c) == c \notin ControlChars
StripControl(s) == SelectSeq(s, NotControl)

\* aiText as JSON.parse (or the fallback) sees it.
SanitizeControlFirst(raw) ==
  Trim(StripFence(StripFence(StripControl(Trim(raw)), FenceJson), Fence))
Sanitize(raw) ==
  StripControl(Trim(StripFence(StripFence(Trim(raw), FenceJson), Fence)))

\* ---------------------------------------------------------------- JSON.parse
\* Values: t is "null", "bool", "num", "str", "arr", "obj" or "undefined";
\* s is the text of a string, number or literal; items are the elements of an
\* array or the member values of an object, keys the member names.
JV(t, s, items, keys) == [t |-> t, s |-> s, items |-> items, keys |-> keys]
JUndefined == JV("undefined", <<>>, <<>>, <<>>)
JStr(s) == JV("str", s, <<>>, <<>>)

JsonSpace == {" ", "\n", "\t", "\r"}
Digits == {"0", "1", "2", "3", "4", "5", "6", "7", "8", "9"}

PR(ok, val, pos) == [ok |-> ok, val |-> val, pos |-> pos]
PFail == PR(FALSE, JUndefined, 0)

RECURSIVE SkipSpace(_, _)
SkipSpace(s, i) ==
  IF i <= Len(s) /\ s[i] \in JsonSpace THEN SkipSpace(s, i + 1) ELSE i

\* The characters of a string from just after its opening quote; pos is the
\* position after the closing quote.  Escapes: \" \\ \/ \n \t.
\* Plain characters are taken in one run up to the next quote, backslash or
\* control character.
RECURSIVE ParseString(_, _, _)
ParseString(s, i0, acc0) ==
  LET stops == {k \in i0..Len(s) : s[k] \in {"\"", "\\", "\r"} \cup ControlChars}
      i == IF stops = {} THEN Len(s) + 1 ELSE CHOOSE k \in stops : \A l \in stops : k <= l
      acc == acc0 \o SubSeq(s, i0, i - 1)
  IN IF i > Len(s) THEN PFail
     ELSE IF s[i] = "\"" THEN PR(TRUE, JStr(acc), i + 1)
     ELSE IF s[i] = "\\" THEN
       IF i + 1 > Len(s) THEN PFail
       ELSE IF s[i + 1] \in {"\"", "\\", "/"} THEN ParseString(s, i + 2, Append(acc, s[i + 1]))
       ELSE IF s[i + 1] = "n" THEN ParseString(s, i + 2, Append(acc, "\n"))
       ELSE IF s[i + 1] = "t" THEN ParseString(s, i + 2, Append(acc, "\t"))
       ELSE PFail
     ELSE PFail

RECURSIVE DigitsEnd(_, _)
DigitsEnd(s, i) == IF i <= Len(s) /\ s[i] \in Digits THEN DigitsEnd(s, i + 1) ELSE i

\* An integer: 0, or a nonzero digit followed by digits.
ParseNumber(s, i) ==
  LET e == IF s[i] = "0" THEN i + 1 ELSE DigitsEnd(s, i)
  IN PR(TRUE, JV("num", SubSeq(s, i, e - 1), <<>>, <<>>), e)

ParseLiteral(s, i) ==
  IF StartsWithAt(s, i, <<"n", "u", "l", "l">>)
    THEN PR(TRUE, JV("null", <<"n", "u", "l", "l">>, <<>>, <<>>), i + 4)
  ELSE IF StartsWithAt(s, i, <<"t", "r", "u", "e">>)
    THEN PR(TRUE, JV("bool", <<"t", "r", "u", "e">>, <<>>, <<>>), i + 4)
  ELSE IF StartsWithAt(s, i, <<"f", "a", "l", "s", "e">>)
    THEN PR(TRUE, JV("bool", <<"f", "a", "l", "s", "e">>, <<>>, <<>>), i + 5)
  ELSE PFail

RECURSIVE ParseValue(_, _)
RECURSIVE ParseElements(_, _, _)
RECURSIVE ParseMembers(_, _, _, _)

\* A value that starts at or after i.
ParseValue(s, i0) ==
  LET i == SkipSpace(s, i0)
  IN IF i > Len(s) THEN PFail
     ELSE IF s[i] = "[" THEN
       LET j == SkipSpace(s, i + 1)
       IN IF j <= Len(s) /\ s[j] = "]"
            THEN PR(TRUE, JV("arr", <<>>, <<>>, <<>>), j + 1)
            ELSE ParseElements(s, i + 1, <<>>)
     ELSE IF s[i] = "{" THEN
       LET j == SkipSpace(s, i + 1)
       IN IF j <= Len(s) /\ s[j] = "}"
            THEN PR(TRUE, JV("obj", <<>>, <<>>, <<>>), j + 1)
            ELSE ParseMembers(s, i + 1, <<>>, <<>>)
     ELSE IF s[i] = "\"" THEN ParseString(s, i + 1, <<>>)
     ELSE IF s[i] \in Digits THEN ParseNumber(s, i)
     ELSE ParseLiteral(s, i)

\* The elements of a non-empty array, from the next element on.
ParseElements(s, i, acc) ==
  LET v == ParseValue(s, i)
      j == SkipSpace(s, v.pos)
  IN IF ~v.ok \/ j > Len(s) THEN PFail
     ELSE IF s[j] = "," THEN ParseElements(s, j + 1, Append(acc, v.val))
     ELSE IF s[j] = "]" THEN PR(TRUE, JV("arr", <<>>, Append(acc, v.val), <<>>), j + 1)
     ELSE PFail

\* The members of a non-empty object, from the next member on.
ParseMembers(s, i0, ks, vs) ==
  LET i == SkipSpace(s, i0)
  IN IF i > Len(s) \/ s[i] # "\"" THEN PFail
     ELSE
       LET k == ParseString(s, i + 1, <<>>)
           c == SkipSpace(s, k.pos)
       IN IF ~k.ok \/ c > Len(s) \/ s[c] # ":" THEN PFail
          ELSE
            LET v == ParseValue(s, c + 1)
                j == SkipSpace(s, v.pos)
            IN IF ~v.ok \/ j > Len(s) THEN PFail
               ELSE IF s[j] = ","
                 THEN ParseMembers(s, j + 1, Append(ks, k.val.s), Append(vs, v.val))
               ELSE IF s[j] = "}"
                 THEN PR(TRUE, JV("obj", <<>>, Append(vs, v.val), Append(ks, k.val.s)), j + 1)
               ELSE PFail

\* JSON.parse(s): ok is FALSE where it throws SyntaxError.
JsonParse(s) ==
  LET v == ParseValue(s, 1)
  IN IF v.ok /\ SkipSpace(s, v.pos) = Len(s) + 1 THEN v ELSE PFail

\* value[name]: the last member of that name; undefined on anything that is
\* not an object with such a member.  (null[name] throws: see MapArticle.)
RECURSIVE LastIndexOf(_, _, _)
LastIndexOf(ks, name, i) ==
  IF i = 0 THEN 0 ELSE IF ks[i] = name THEN i ELSE LastIndexOf(ks, name, i - 1)

GetProp(v, name) ==
  LET i == LastIndexOf(v.keys, name, Len(v.keys))
  IN IF v.t = "obj" /\ i > 0 THEN v.items[i] ELSE JUndefined

JTruthy(v) ==
  CASE v.t \in {"undefined", "null"} -> FALSE
    [] v.t = "bool" -> v.s = <<"t", "r", "u", "e">>
    [] v.t = "num" -> v.s # <<"0">>
    [] v.t = "str" -> v.s # <<>>
    [] OTHER -> TRUE

\* What a <Text> shows for a value.
DisplayText(v) ==
  IF v.t \in {"str", "num", "bool"} THEN v.s
  ELSE IF v.t = "arr" THEN <<"[", "a", "r", "r", "a", "y", "]">>
  ELSE IF v.t = "obj" THEN <<"[", "o", "b", "j", "e", "c", "t", "]">>
  ELSE <<>>

\* ------------------------------------------------------- literals of the code
GenKey == <<"G", "e", "n", "e", "r", "a", "t", "e", "d", " ", "a", "r", "t", "i",
    "c", "l", "e">>
TimestampKey == <<"T", "i", "m", "e", "s", "t", "a", "m", "p">>
SourceUrlKey == <<"S", "o", "u", "r", "c", "e", " ", "U", "R", "L">>
Today == <<"T", "o", "d", "a", "y">>
BbcNews == <<"B", "B", "C", " ", "N", "e", "w", "s">>
PerspectiveSuffix ==
  <<"'", "s", " ", "P", "e", "r", "s", "p", "e", "c", "t", "i", "v", "e",
      " ", "o", "n", " ", "C", "u", "r", "r", "e", "n", "t", " ", "E", "v",
      "e", "n", "t", "s">>
Ellipsis == <<".", ".", ".">>

TitleSentenceMax == 80
TitleCut == 60
SummaryMax == 200

\* A URL is a text of one atom.
newsImages ==
  << <<"pexels-518543">>, <<"pexels-1591056">>, <<"pexels-1591447">>,
     <<"pexels-1591061">>, <<"pexels-163064">> >>
DefaultThumbnail == <<"pexels-163064">>

\* ------------------------------------------------------------------ parser
StartsWith(s, c) == s # <<>> /\ Head(s) = c

Synthetic(t) == JV("obj", <<>>, <<JStr(t)>>, <<GenKey>>)

\* aiArticles of the effect: the decoded array, the decoded value wrapped,
\* or the plain-text record when the text is no JSON or decoding throws.
ParseArticlesDropOnError(raw) ==
  LET aiText == Sanitize(raw)
      parsed == JsonParse(aiText)
  IN IF StartsWith(aiText, "[") \/ StartsWith(aiText, "{") THEN
       IF parsed.ok
         THEN IF parsed.val.t = "arr" THEN parsed.val.items ELSE <<parsed.val>>
         ELSE <<>>
     ELSE <<Synthetic(aiText)>>

ParseArticlesRawOnError(raw) ==
  LET aiText == Sanitize(raw)
      parsed == JsonParse(aiText)
  IN IF StartsWith(aiText, "[") \/ StartsWith(aiText, "{") THEN
       IF parsed.ok
         THEN IF parsed.val.t = "arr" THEN parsed.val.items ELSE <<parsed.val>>
         ELSE <<Synthetic(raw)>>
     ELSE <<Synthetic(aiText)>>

ParseArticles(raw) ==
  LET aiText == Sanitize(raw)
      parsed == JsonParse(aiText)
  IN IF StartsWith(aiText, "[") \/ StartsWith(aiText, "{") THEN
       IF parsed.ok
         THEN IF parsed.val.t = "arr" THEN parsed.val.items ELSE <<parsed.val>>
         ELSE <<Synthetic(aiText)>>
     ELSE <<Synthetic(aiText)>>

\* -------------------------------------------------------------- normalizer
Min(a, b) == IF a < b THEN a ELSE b

\* s.substring(0, n)
Substring0(s, n) == SubSeq(s, 1, Min(n, Len(s)))

\* s.split(sep)[0]
FirstOccurrence(s, sep, i) ==
  LET at == {k \in i..Len(s) : StartsWithAt(s, k, sep)}
  IN IF at = {} THEN 0 ELSE CHOOSE k \in at : \A l \in at : k <= l

SplitFirst(s, sep) ==
  LET i == FirstOccurrence(s, sep, 1)
  IN IF i = 0 THEN s ELSE SubSeq(s, 1, i - 1)

DeriveTitleCutAtMax(generatedContent) ==
  IF generatedContent = <<>> THEN <<>>
  ELSE LET firstSentence == SplitFirst(generatedContent, <<".">>)
       IN IF Len(firstSentence) > TitleSentenceMax
            THEN Substring0(generatedContent, TitleSentenceMax) \o Ellipsis
            ELSE firstSentence \o <<".">>

DeriveTitle(generatedContent) ==
  IF generatedContent = <<>> THEN <<>>
  ELSE LET firstSentence == SplitFirst(generatedContent, <<".">>)
       IN IF Len(firstSentence) > TitleSentenceMax
            THEN Substring0(generatedContent, TitleCut) \o Ellipsis
            ELSE firstSentence \o <<".">>

DeriveSummaryFirstLine(generatedContent) ==
  IF generatedContent = <<>> THEN <<>>
  ELSE LET firstParagraph == SplitFirst(generatedContent, <<"\n">>)
       IN IF Len(firstParagraph) > SummaryMax
            THEN Substring0(firstParagraph, SummaryMax) \o Ellipsis
            ELSE firstParagraph

DeriveSummary(generatedContent) ==
  IF generatedContent = <<>> THEN <<>>
  ELSE LET p == SplitFirst(generatedContent, <<"\n", "\n">>)
           firstParagraph == IF p # <<>> THEN p ELSE SplitFirst(generatedContent, <<"\n">>)
       IN IF Len(firstParagraph) > SummaryMax
            THEN Substring0(firstParagraph, SummaryMax) \o Ellipsis
            ELSE firstParagraph

getRandomNewsImageClamped(index) == newsImages[Min(index, Len(newsImages) - 1) + 1]
getRandomNewsImage(index) == newsImages[(index % Len(newsImages)) + 1]

OrText(v, d) == IF JTruthy(v) THEN DisplayText(v) ELSE d

\* One callback of aiArticles.map; idx counts from 0.  threw: reading a
\* property of null, or calling split on a truthy value that is no string.
MapArticle(article, idx, person) ==
  LET g == IF article.t = "null" THEN JUndefined ELSE GetProp(article, GenKey)
      content == IF JTruthy(g) THEN g ELSE JStr(<<>>)
      text == content.s
      title == DeriveTitle(text)
      summary == DeriveSummary(text)
  IN [threw |-> article.t = "null" \/ content.t # "str",
      article |->
        [id |-> ToString(idx + 1),
         title |-> IF title # <<>> THEN title ELSE person \o PerspectiveSuffix,
         originalTitle |-> <<>>,
         summary |-> IF summary # <<>> THEN summary
                     ELSE Substring0(text, SummaryMax) \o Ellipsis,
         originalSummary |-> <<>>,
         imageUrl |-> getRandomNewsImage(idx),
         publishedAt |-> OrText(GetProp(article, TimestampKey), Today),
         originalUrl |-> OrText(GetProp(article, SourceUrlKey), <<>>),
         source |-> BbcNews,
         aiGenerated |-> TRUE,
         generated |-> text,
         inputPerson |-> person]]

\* aiArticles.map(...): threw when a callback threw.
MapArticles(aiArticles, person) ==
  LET m == [i \in 1..Len(aiArticles) |-> MapArticle(aiArticles[i], i - 1, person)]
  IN [threw |-> \E i \in 1..Len(m) : m[i].threw,
      articles |-> [i \in 1..Len(m) |-> m[i].article]]

\* ----------------------------------------------------------- vendor records
OrUndefined(t, d) == IF Truthy(t) THEN t ELSE d

mapApiArticleToNewsArticleNoFallback(apiArticle, idx) ==
  [id |-> ToString(idx + 1),
   title |-> Undefined,
   originalTitle |-> OrUndefined(apiArticle.title, <<>>),
   summary |-> Undefined,
   originalSummary |-> OrUndefined(apiArticle.snippet, <<>>),
   imageUrl |-> OrUndefined(apiArticle.thumbnail_url, <<>>),
   publishedAt |-> OrUndefined(apiArticle.published_datetime_utc, <<>>),
   originalUrl |-> OrUndefined(apiArticle.link, <<>>),
   source |-> OrUndefined(apiArticle.source_name, <<>>),
   aiGenerated |-> FALSE,
   generated |-> Undefined,
   inputPerson |-> Undefined]

mapApiArticleToNewsArticle(apiArticle, idx) ==
  [id |-> ToString(idx + 1),
   title |-> Undefined,
   originalTitle |-> OrUndefined(apiArticle.title, <<>>),
   summary |-> Undefined,
   originalSummary |-> OrUndefined(apiArticle.snippet, <<>>),
   imageUrl |-> OrUndefined(apiArticle.thumbnail_url, DefaultThumbnail),
   publishedAt |-> OrUndefined(apiArticle.published_datetime_utc, <<>>),
   originalUrl |-> OrUndefined(apiArticle.link, <<>>),
   source |-> OrUndefined(apiArticle.source_name, <<>>),
   aiGenerated |-> FALSE,
   generated |-> Undefined,
   inputPerson |-> Undefined]

\* Elements of result.data; null marks an element that is null.
VendorFull ==
  [null |-> FALSE,
   title |-> <<"T">>, snippet |-> <<"S">>, thumbnail_url |-> <<"thumb-1">>,
   link |-> <<"link-1">>, source_name |-> <<"N">>,
   published_datetime_utc |-> <<"2", "0", "2", "5">>]
VendorBare ==
  [null |-> FALSE,
   title |-> Undefined, snippet |-> <<>>, thumbnail_url |-> Undefined,
   link |-> Undefined, source_name |-> Undefined,
   published_datetime_utc |-> Undefined]
VendorEmptyImage ==
  [null |-> FALSE,
   title |-> <<"E">>, snippet |-> <<"S">>, thumbnail_url |-> <<>>,
   link |-> <<"link-2">>, source_name |-> <<"N">>,
   published_datetime_utc |-> <<"2", "0", "2", "5">>]
VendorNull ==
  [null |-> TRUE,
   title |-> Undefined, snippet |-> Undefined, thumbnail_url |-> Undefined,
   link |-> Undefined, source_name |-> Undefined,
   published_datetime_utc |-> Undefined]

\* What the vendor request can do: reject, answer a body that is no JSON,
\* answer null, answer an object without data, answer {data: [...]}, or
\* answer {data: v} with v truthy and no array ("notarray").
VendorFailures ==
  {[kind |-> k, data |-> <<>>] : k \in {"reject", "nonjson", "null", "nodata"}}
VendorOutcomes ==
  VendorFailures
  \cup {[kind |-> "notarray", data |-> <<>>]}
  \cup {[kind |-> "data", data |-> d] :
          d \in {<<>>, <<VendorFull>>, <<VendorBare, VendorFull>>,
                 <<VendorEmptyImage>>, <<VendorFull, VendorNull>>}}

RapidKeys == {<<>>, <<"r">>}

\* The request carries rapidapi_key in its x-rapidapi-key header and is sent
\* whatever the key is; the vendor gives no data to a request without a key.
VendorAnswers(key) == IF key = <<>> THEN VendorFailures ELSE VendorOutcomes

\* fetchNewsArticles: result.data || [], and [] from the catch.  array tells
\* whether the value it resolves to is an array.
fetchNewsArticles(o) ==
  IF o.kind = "data" THEN [array |-> TRUE, items |-> o.data]
  ELSE IF o.kind = "notarray" THEN [array |-> FALSE, items |-> <<>>]
  ELSE [array |-> TRUE, items |-> <<>>]

\* apiArticles.map(mapApiArticleToNewsArticle): threw when apiArticles has no
\* map method or an element is null (apiArticle.title on null).
MapApiArticles(apiArticles) ==
  [threw |-> \/ ~apiArticles.array
             \/ \E i \in 1..Len(apiArticles.items) : apiArticles.items[i].null,
   articles |-> [i \in 1..Len(apiArticles.items) |->
                   mapApiArticleToNewsArticle(apiArticles.items[i], i - 1)]]

\* ------------------------------------------------- inputs of the list screen
MaxLen == 4             \* longest text over SmallAlphabet the screen is opened with

SmallAlphabet == {"~", "\n", "^A", "[", "]", "1"}
SmallTexts == UNION {[1..k -> SmallAlphabet] : k \in 0..MaxLen}

Q == <<"\"">>
GenMember(v) == <<"{">> \o Q \o GenKey \o Q \o <<":">> \o v \o <<"}">>

\* Generated text as the endpoint returns it: decodable, fenced, broken.
Docs ==
  { <<"[", "n", "u", "l", "l", "]">>,
    <<"[">> \o GenMember(<<"5">>) \o <<"]">>,
    <<"[">> \o GenMember(<<"0">>) \o <<"]">>,
    <<"[">> \o GenMember(<<"t", "r", "u", "e">>) \o <<"]">>,
    <<"[">> \o GenMember(Q \o <<"a", ".", "b">> \o Q) \o <<"]">>,
    <<"[">> \o GenMember(Q \o <<"a">> \o Q) \o <<",", "\n", " ">>
            \o GenMember(Q \o <<"b", "\\", "n", "\\", "n", "c">> \o Q) \o <<"]">>,
    GenMember(Q \o <<"a">> \o Q),
    <<"[", "{", "}", ",", "{", "}", ",", "{", "}", "]">>,
    <<"{", "}">>,
    <<"[">> \o Q \o Fence \o Q \o <<"]">>,
    Fence \o <<"j", "s", "o", "n", "\n", "[">> \o GenMember(Q \o <<"a">> \o Q)
          \o <<"]", "\n">> \o Fence,
    Fence \o <<"~", "\n", "~", "~">>,
    <<"~", "^A">> \o FenceJson \o <<"~", "~">>,
    <<"[", "1", ",">>,
    <<"a", " ", "b", ".">>,
    <<" ">> }

\* n times the character c
Rep(c, n) == [i \in 1..n |-> c]

NL == <<"\\", "n">>          \* a line break as JSON writes it inside a string
ShortLineBody ==
  <<"S", "h", "o", "r", "t", " ", "l", "i", "n", "e", ".", " ", "R", "e", "s",
    "t", " ", "o", "f", " ", "a", "r", "t", "i", "c", "l", "e", ".", ".", ".">>

\* Generated text with sentences and paragraphs around the lengths at which
\* the title and the summary are cut.
LongDocs ==
  { ShortLineBody,
    Rep("x", TitleSentenceMax) \o <<".", " ", "y">>,
    Rep("x", TitleSentenceMax + 1) \o <<".", " ", "y">>,
    Rep("x", TitleSentenceMax + 1),
    <<"[">> \o GenMember(Q \o ShortLineBody \o Q) \o <<",">>
            \o GenMember(Q \o Rep("x", TitleSentenceMax + 1) \o <<".">> \o Q) \o <<"]">>,
    GenMember(Q \o <<"a">> \o NL \o <<"b">> \o NL \o NL \o <<"c">> \o Q),
    GenMember(Q \o NL \o NL \o <<"z">> \o Q),
    GenMember(Q \o Rep("y", SummaryMax) \o NL \o NL \o <<"z">> \o Q),
    GenMember(Q \o Rep("y", SummaryMax + 1) \o NL \o NL \o <<"z">> \o Q),
    GenMember(Q \o Rep("y", SummaryMax + 1) \o Q),
    <<"[", "{", "}", ",", "{", "}", ",", "{", "}", ",", "{", "}", ",",
      "{", "}", ",", "{", "}", ",", "{", "}", "]">> }

RawTexts == SmallTexts \cup Docs \cup LongDocs \cup {Undefined}
Persons == {Undefined, <<"A">>}

\* ------------------------------------------------------- the list screen

\* The screen as first rendered: both effects are due.
NewsMounted(params) ==
  /\ nsParams = params
  /\ selectedPerson = <<>>
  /\ articles = <<>>
  /\ refreshing = FALSE
  /\ pending = {"ai", "news"}
  /\ newsLoads = 0
  /\ crashed = FALSE
  /\ unhandled = FALSE

\* The screen is not open.
NewsClosed ==
  /\ nsParams = [person |-> Undefined, aiResponse |-> Undefined]
  /\ selectedPerson = <<>>
  /\ articles = <<>>
  /\ refreshing = FALSE
  /\ pending = {}
  /\ newsLoads = 0
  /\ crashed = FALSE
  /\ unhandled = FALSE
  /\ rapidapi_key = <<"r">>

\* The render shows the 'No Perspectives Found' panel instead of the list.
ShowsEmpty ==
  \/ Truthy(nsParams.aiResponse) /\ (~Truthy(selectedPerson) \/ Len(articles) = 0)
  \/ ~Truthy(nsParams.aiResponse) /\ Len(articles) = 0

\* The effects due after a render run with the state of that render; their
\* state updates are rendered, which makes the first effect due again when
\* selectedPerson changed.
RunEffects ==
  /\ pending # {}
  /\ ~crashed
  /\ LET runAi == "ai" \in pending /\ Truthy(nsParams.aiResponse)
         person == IF "ai" \in pending /\ Truthy(nsParams.person)
                     THEN nsParams.person ELSE selectedPerson
         mapped == MapArticles(ParseArticles(nsParams.aiResponse), selectedPerson)
     IN IF runAi /\ mapped.threw THEN
          /\ crashed' = TRUE
          /\ pending' = {}
          /\ UNCHANGED <<selectedPerson, articles, newsLoads>>
        ELSE
          /\ selectedPerson' = person
          /\ articles' = IF runAi THEN mapped.articles ELSE articles
          /\ newsLoads' = IF "news" \in pending /\ ~Truthy(nsParams.aiResponse)
                            THEN newsLoads + 1 ELSE newsLoads
          /\ pending' = IF person # selectedPerson THEN {"ai"} ELSE {}
          /\ UNCHANGED crashed
  /\ UNCHANGED <<rapidapi_key, unhandled, nsParams, refreshing>>
  /\ UNCHANGED <<homeVars, articleVars>>

\* loadRealNews resumes after fetchNewsArticles.
NewsFetchSettles ==
  /\ newsLoads > 0
  /\ ~crashed
  /\ \E o \in VendorAnswers(rapidapi_key) :
       LET mapped == MapApiArticles(fetchNewsArticles(o))
       IN IF mapped.threw
            THEN unhandled' = TRUE /\ UNCHANGED articles
            ELSE articles' = mapped.articles /\ UNCHANGED unhandled
  /\ newsLoads' = newsLoads - 1
  /\ UNCHANGED <<rapidapi_key, nsParams, selectedPerson, refreshing, pending, crashed>>
  /\ UNCHANGED <<homeVars, articleVars>>

\* Pull to refresh on the list.
OnRefresh ==
  /\ ~crashed
  /\ ~ShowsEmpty
  /\ ~refreshing
  /\ refreshing' = TRUE
  /\ UNCHANGED <<rapidapi_key, unhandled, nsParams, selectedPerson, articles, pending, newsLoads, crashed>>
  /\ UNCHANGED <<homeVars, articleVars>>

\* The timer of onRefresh fires.
RefreshTimeout ==
  /\ refreshing
  /\ refreshing' = FALSE
  /\ UNCHANGED <<rapidapi_key, unhandled, nsParams, selectedPerson, articles, pending, newsLoads, crashed>>
  /\ UNCHANGED <<homeVars, articleVars>>

\* ------------------------------------------------ the home screen's render
TitleUnavailable == "Service Temporarily Unavailable"
TitleConfiguration == "Configuration Required"
InstructionsUnavailable == "What happened?"
InstructionsSetup == "Quick Setup:"
NoPanel == [shown |-> FALSE, title |-> "", text |-> <<>>, instructions |-> ""]

\* {error && (...)}: the panel of a truthy error string, its title and its
\* instructions chosen by error.includes('temporarily unavailable').
ErrorPanel(e) ==
  IF e.null \/ e.msg = <<>> THEN NoPanel
  ELSE IF Includes(e.msg, "temporarily unavailable")
    THEN [shown |-> TRUE, title |-> TitleUnavailable, text |-> e.msg,
          instructions |-> InstructionsUnavailable]
    ELSE [shown |-> TRUE, title |-> TitleConfiguration, text |-> e.msg,
          instructions |-> InstructionsSetup]

\* The list screen is a tab and stays mounted: opened from the tab bar it has
\* no parameters, and the home screen's router.push then gives it person (the
\* trimmed, non-blank name) and aiResponse.  Both effects depend on
\* params.aiResponse and are due again; state and requests in flight stay.
PushedParams == {[person |-> <<"A">>, aiResponse |-> r] : r \in Docs}

NewsNavigate ==
  /\ ~crashed
  /\ ~Truthy(nsParams.aiResponse)
  /\ nsParams' \in PushedParams
  /\ pending' = {"ai", "news"}
  /\ UNCHANGED <<rapidapi_key, unhandled, selectedPerson, articles, refreshing,
                 newsLoads, crashed>>
  /\ UNCHANGED <<homeVars, articleVars>>

\* What the list screen shows: the render throws, the 'No Perspectives Found'
\* panel, or the list.  The screen has no other panel.
NewsView ==
  IF crashed THEN "crash"
  ELSE IF ShowsEmpty THEN "No Perspectives Found"
  ELSE "list"

\* ------------------------------------------------------ the article screen
EinsteinKey ==
  <<"A", "l", "b", "e", "r", "t", " ", "E", "i", "n", "s", "t", "e", "i",
    "n">>
OprahKey ==
  <<"O", "p", "r", "a", "h", " ", "W", "i", "n", "f", "r", "e", "y">>
MuskKey ==
  <<"E", "l", "o", "n", " ", "M", "u", "s", "k">>
DefaultKey ==
  <<"D", "e", "f", "a", "u", "l", "t">>
UntitledArticle ==
  <<"U", "n", "t", "i", "t", "l", "e", "d", " ", "A", "r", "t", "i", "c",
    "l", "e">>

\* The template literals: title and summary are interpolated character by
\* character, each fixed passage around them is one atom, line breaks and the
\* closing indentation are characters.
Indent == <<"\n", " ", " ", " ", " ">>
Para == <<"\n", "\n">>

EinsteinTemplate(title, summary) ==
  <<"\n", "My dear friends,">> \o Para
  \o <<"As I sit in my study, ... this fascinating development: \"">>
  \o title \o <<"\".">> \o Para
  \o summary \o Para
  \o <<"From my perspective as a physicist, ...">> \o Para
  \o <<"The curiosity that drives scientific inquiry ...">> \o Para
  \o <<"I am reminded of my belief that ...">> \o Para
  \o <<"The responsibility of knowledge ...">> \o Para
  \o <<"With warm regards and endless curiosity,", "\n">>
  \o EinsteinKey \o Indent

OprahTemplate(title, summary) ==
  <<"\n", "Hello, beautiful souls!">> \o Para
  \o <<"What moves me most deeply about this story - \"">>
  \o title \o <<"\" - is the human element at its very core.">> \o Para
  \o summary \o Para
  \o <<"Behind every headline, ...">> \o Para
  \o <<"This is what I see when I look at this development: ...">> \o Para
  \o <<"Much love and light,", "\n", "O", "p", "r", "a", "h">> \o Indent

MuskTemplate(title, summary) ==
  <<"\n", "Looking at \"">>
  \o title \o <<"\" from first principles, ...">> \o Para
  \o summary \o Para
  \o <<"The question I always ask is: ...">> \o Para
  \o <<"Let's build something great together.">> \o Para
  \o <<"-", " ", "E", "l", "o", "n">> \o Indent

DefaultTemplate(title, summary) ==
  <<"\n", "\"">> \o title \o <<"\"">> \o Para
  \o summary \o Para
  \o <<"This development represents a significant moment ...">> \o Para
  \o <<"As we continue to monitor these developments, ...">> \o Indent

\* Members every object literal inherits from Object.prototype; the lookup
\* articleTemplates[person] finds them as it finds the four own keys.
ToStringKey ==
  <<"t", "o", "S", "t", "r", "i", "n", "g">>
ConstructorKey ==
  <<"c", "o", "n", "s", "t", "r", "u", "c", "t", "o", "r">>
ProtoKey ==
  <<"_", "_", "p", "r", "o", "t", "o", "_", "_">>
ValueOfKey ==
  <<"v", "a", "l", "u", "e", "O", "f">>
ObjectUndefined ==
  <<"[", "o", "b", "j", "e", "c", "t", " ", "U", "n", "d", "e", "f", "i",
    "n", "e", "d", "]">>

\* What the call gives: threw (TypeError), the member of articleTemplates that
\* was called, the kind of value returned and its text.
Rendered(threw, template, kind, text) ==
  [threw |-> threw, template |-> template, kind |-> kind, text |-> text]

\* articleTemplates[person] || articleTemplates.Default, then
\* template(title, summary) with no receiver: Object.prototype.toString gives
\* "[object Undefined]", Object gives a String object of its first argument,
\* Object.prototype.valueOf throws on the missing receiver, and the object
\* under __proto__ is no function.
generateFullAIArticle(person, title, summary) ==
  CASE person = EinsteinKey ->
         Rendered(FALSE, "Albert Einstein", "string", EinsteinTemplate(title, summary))
    [] person = OprahKey ->
         Rendered(FALSE, "Oprah Winfrey", "string", OprahTemplate(title, summary))
    [] person = MuskKey ->
         Rendered(FALSE, "Elon Musk", "string", MuskTemplate(title, summary))
    [] person = ToStringKey ->
         Rendered(FALSE, "Object.prototype.toString", "string", ObjectUndefined)
    [] person = ConstructorKey ->
         Rendered(FALSE, "Object", "object", title)
    [] person = ValueOfKey ->
         Rendered(TRUE, "Object.prototype.valueOf", "none", <<>>)
    [] person = ProtoKey ->
         Rendered(TRUE, "Object.prototype", "none", <<>>)
    [] OTHER ->
         Rendered(FALSE, "Default", "string", DefaultTemplate(title, summary))

\* String(value) of a decoded value, as a template literal or a Text shows it.
RECURSIVE StringOf(_)
RECURSIVE JoinFrom(_, _)
JoinFrom(items, i) ==
  IF i > Len(items) THEN <<>>
  ELSE (IF i > 1 THEN <<",">> ELSE <<>>)
       \o (IF items[i].t \in {"null", "undefined"} THEN <<>> ELSE StringOf(items[i]))
       \o JoinFrom(items, i + 1)
StringOf(v) ==
  IF v.t \in {"str", "num", "bool", "null"} THEN v.s
  ELSE IF v.t = "obj" THEN
    <<"[", "o", "b", "j", "e", "c", "t", " ", "O", "b", "j", "e", "c", "t",
      "]">>
  ELSE IF v.t = "arr" THEN JoinFrom(v.items, 1)
  ELSE Undefined

\* s.includes(sub) on characters
IncludesText(s, sub) ==
  \E k \in 0..(Len(s) - Len(sub)) : SubSeq(s, k + 1, k + Len(sub)) = sub

\* parseAIContent: the "Generated article" of the decoded text (of its first
\* element when it is a non-empty array) when that is truthy, the text itself
\* otherwise and when decoding or the property read throws.
parseAIContent(content) ==
  IF ~Truthy(content) THEN <<>>
  ELSE IF ~IncludesText(content, Q \o GenKey \o Q) THEN content
  ELSE
    LET parsed == JsonParse(content)
    IN IF ~parsed.ok THEN content
       ELSE IF parsed.val.t = "arr" /\ Len(parsed.val.items) > 0 THEN
         LET g == GetProp(parsed.val.items[1], GenKey)
         IN IF parsed.val.items[1].t = "null" THEN content
            ELSE IF JTruthy(g) THEN StringOf(g) ELSE content
       ELSE IF parsed.val.t = "null" THEN content
       ELSE IF JTruthy(GetProp(parsed.val, GenKey))
         THEN StringOf(GetProp(parsed.val, GenKey))
       ELSE content

\* title || originalTitle || 'Untitled Article'
DisplayTitle(params) ==
  IF Truthy(params.title) THEN params.title
  ELSE IF Truthy(params.originalTitle) THEN params.originalTitle
  ELSE UntitledArticle

NoBody ==
  [rendered |-> FALSE, hero |-> <<>>, title |-> <<>>, summary |-> <<>>,
   out |-> Rendered(FALSE, "", "none", <<>>)]

\* useLocalSearchParams gives string | string[] for each parameter.  asParams
\* holds the string, or the first element of the array; asWrap tells whether
\* the parameter is an array and holds its further elements.
NotWrapped == [wrapped |-> FALSE, rest |-> <<>>]
WrappedOne == [wrapped |-> TRUE, rest |-> <<>>]
WrappedTwo == [wrapped |-> TRUE, rest |-> << <<"U">> >>]
NoWrap ==
  [person |-> NotWrapped, title |-> NotWrapped, summary |-> NotWrapped,
   imageUrl |-> NotWrapped]

\* String(value): an array is its elements joined by commas.
RECURSIVE JoinTexts(_)
JoinTexts(ts) ==
  IF ts = <<>> THEN <<>>
  ELSE IF Len(ts) = 1 THEN ts[1]
  ELSE ts[1] \o <<",">> \o JoinTexts(Tail(ts))
ParamString(v, w) == IF w.wrapped THEN JoinTexts(<<v>> \o w.rest) ELSE v

\* An array is truthy whatever it holds.
ParamTruthy(v, w) == w.wrapped \/ Truthy(v)

\* The screen is not open.
ArticleClosed ==
  /\ asParams = [person |-> Undefined, title |-> Undefined,
                 originalTitle |-> Undefined, summary |-> Undefined,
                 imageUrl |-> Undefined]
  /\ asWrap = NoWrap
  /\ asBody = NoBody

\* Route parameters the screen is opened with.
ArticlePersons ==
  {Undefined, <<>>, EinsteinKey, OprahKey, MuskKey, DefaultKey,
   <<"a", "l", "b", "e", "r", "t", " ", "e", "i", "n", "s", "t", "e", "i",
     "n">>,
   <<"A", "l", "b", "e", "r", "t">>,
   ToStringKey, ConstructorKey, ValueOfKey, ProtoKey}
ArticleTitles == {Undefined, <<>>, <<"T">>}
ArticleOriginalTitles == {Undefined, <<"O">>}
ArticleSummaries ==
  {Undefined, <<"S">>,
   GenMember(Q \o <<"a">> \o Q),
   <<"[">> \o GenMember(<<"5">>) \o <<"]">>,
   <<"[">> \o GenMember(Q \o Q) \o <<"]">>}

ArticleImages == {Undefined, <<"img-1">>}
ArticleWraps ==
  {w \in [person : {NotWrapped, WrappedOne}, title : {NotWrapped, WrappedTwo},
          summary : {NotWrapped, WrappedOne}, imageUrl : {NotWrapped, WrappedTwo}] :
     TRUE}

ArticleMounted(params) ==
  /\ asParams = params
  /\ asWrap \in ArticleWraps
  /\ \A f \in {"person", "title", "summary", "imageUrl"} :
       asWrap[f].wrapped => params[f] # Undefined
  /\ asBody = NoBody

\* The render of ArticleScreen up to the article body.  The casts 'as string'
\* change nothing at run time: an array summary passes parseAIContent as it is
\* (Array.prototype.includes finds no element equal to the key text), an array
\* title is truthy, and the template literals and the property lookup turn an
\* array into the comma-joined text of its elements.
ArticleRender ==
  /\ ~asBody.rendered
  /\ LET displayTitle ==
           IF ParamTruthy(asParams.title, asWrap.title)
             THEN ParamString(asParams.title, asWrap.title)
             ELSE DisplayTitle(asParams)
         aiArticleContent ==
           IF asWrap.summary.wrapped
             THEN ParamString(asParams.summary, asWrap.summary)
             ELSE parseAIContent(asParams.summary)
         person == ParamString(asParams.person, asWrap.person)
     IN asBody' = [rendered |-> TRUE,
                   hero |-> asParams.imageUrl,
                   title |-> displayTitle,
                   summary |-> aiArticleContent,
                   out |-> generateFullAIArticle(person, displayTitle,
                                                 aiArticleContent)]
  /\ UNCHANGED <<asParams, asWrap>>
  /\ UNCHANGED <<homeVars, newsVars>>

\* ---------------------------------------------------------- specifications
\* The home screen and its generation calls.
Init == HomeInit /\ NewsClosed /\ ArticleClosed

Next ==
  \/ SetPersonName
  \/ HandleSubmit
  \/ DirectCall
  \/ FetchSettles
  \/ WaitElapses

Spec == Init /\ [][Next]_vars

\* Every fetch in flight settles and every backoff timer fires.
SpecLive == Spec /\ WF_vars(FetchSettles) /\ WF_vars(WaitElapses)

HomeIdle ==
  /\ harness = "news"
  /\ groqApiKey = <<"k">>
  /\ personName = <<>>
  /\ isLoading = FALSE
  /\ error = NullError
  /\ alerted = FALSE
  /\ pushed = NoPush
  /\ calls = <<>>
  /\ last = NoCall

\* The article list screen, opened with any route parameters.
InitNews ==
  /\ HomeIdle
  /\ ArticleClosed
  /\ rapidapi_key \in RapidKeys
  /\ \E p \in Persons, r \in RawTexts : NewsMounted([person |-> p, aiResponse |-> r])

NextNews ==
  \/ RunEffects
  \/ NewsFetchSettles
  \/ OnRefresh
  \/ RefreshTimeout

SpecNews == InitNews /\ [][NextNews]_vars

\* The article list screen as a tab that is navigated to again.
NextNewsTab ==
  \/ NextNews
  \/ NewsNavigate

SpecNewsTab == InitNews /\ [][NextNewsTab]_vars

\* The article screen, opened with any route parameters.
InitArticle ==
  /\ HomeIdle
  /\ NewsClosed
  /\ \E p \in ArticlePersons, t \in ArticleTitles, o \in ArticleOriginalTitles,
        s \in ArticleSummaries, i \in ArticleImages :
       ArticleMounted([person |-> p, title |-> t, originalTitle |-> o, summary |-> s,
                       imageUrl |-> i])

NextArticle == ArticleRender

SpecArticle == InitArticle /\ [][NextArticle]_vars

\* ================================================================== claims
\* A message embeds the words of sub, in order and adjacent.
Embeds(msg, sub) ==
  \E k \in 0..(Len(msg) - Len(sub)) : SubSeq(msg, k + 1, k + Len(sub)) = sub

Retryable(status) == status \in {0, 503}    \* 0: the fetch itself rejected

IsBlank(key) == \A i \in 1..Len(key) : key[i] \in WhiteSpace

SubmitCalls == {i \in 1..Len(calls) : calls[i].caller = "submit"}

\* C1: a call whose attempts 1..k-1 failed retryably (503 or a rejected
\* fetch) and whose attempt k succeeded returned [model, content] of that
\* attempt after exactly k fetches and k-1 waits, the i-th of RETRY_DELAY * i.
C1_RetryThenSuccess ==
  LET k == Len(last.statuses)
  IN (/\ last.caller # "none"
      /\ k >= 1
      /\ \A i \in 1..(k - 1) : Retryable(last.statuses[i])
      /\ last.outcome.kind = "response"
      /\ ResponseOk(last.outcome.status)
      /\ last.outcome.json = "ok")
     => /\ k <= MAX_RETRIES
        /\ last.result.kind = "return"
        /\ last.result.model = "llama3-8b-8192"
        /\ last.result.content = last.outcome.content
        /\ last.fetches = k
        /\ last.waits = [i \in 1..(k - 1) |-> RETRY_DELAY * i]

C1_Witness ==
  /\ last.statuses = <<503, 503, 200>>
  /\ last.result.kind = "return"
  /\ last.waits = <<2000, 4000>>

\* C2: 503 on all three attempts ends the call with the service-unavailable
\* error after exactly 3 fetches and 2 waits; no call is ever in flight after
\* a third 503, and no call issues a fourth fetch.
C2_ThreeTimes503 ==
  /\ \A i \in 1..Len(calls) :
       /\ calls[i].fetches <= MAX_RETRIES
       /\ calls[i].statuses # <<503, 503, 503>>
  /\ last.fetches <= MAX_RETRIES
  /\ last.statuses = <<503, 503, 503>>
       => /\ last.result.kind = "throw"
          /\ Includes(last.result.err.message, "temporarily unavailable")
          /\ last.fetches = 3
          /\ Len(last.waits) = 2

C2_Witness ==
  /\ last.statuses = <<503, 503, 503>>
  /\ last.result.kind = "throw"

\* C3 (as claimed): an attempt that completes with a non-success status
\* other than 503 ends the call at once, at every attempt number and for
\* every body: no call waits or fetches again after such a status, and the
\* error carries the status and the body.
NonRetryStatus(status) == status # 0 /\ ~ResponseOk(status) /\ status # 503

C3_Claim ==
  /\ \A i \in 1..Len(calls) : \A j \in 1..Len(calls[i].statuses) :
       ~NonRetryStatus(calls[i].statuses[j])
  /\ \A j \in 1..Len(last.statuses) :
       NonRetryStatus(last.statuses[j])
         => /\ j = Len(last.statuses)
            /\ last.result.kind = "throw"
            /\ Embeds(last.result.err.message, <<ToString(last.outcome.status)>>)
            /\ Embeds(last.result.err.message, last.outcome.body)

\* C4 (as claimed): giving up on attempt 3 of a retryable condition, the
\* error embeds the retry count and the last status and body.
GaveUpOnLastAttempt ==
  /\ last.result.kind = "throw"
  /\ Len(last.statuses) = MAX_RETRIES
  /\ Retryable(last.statuses[MAX_RETRIES])

C4_Claim ==
  GaveUpOnLastAttempt
    => /\ Embeds(last.result.err.message, <<ToString(MAX_RETRIES)>>)
       /\ Embeds(last.result.err.message, <<ToString(last.outcome.status)>>)
       /\ Embeds(last.result.err.message, last.outcome.body)

\* C4 (amended): giving up on a 503 at attempt 3, the error message embeds
\* the status and the response body but no retry count; giving up on a
\* rejected fetch at attempt 3, the transport's own error is rethrown as it
\* is, with no retry count, status or body added.
C4_GiveUpError ==
  GaveUpOnLastAttempt
    => IF last.outcome.kind = "reject"
         THEN last.result.err = Err("TypeError", MsgNetwork)
         ELSE LET msg == last.result.err.message
                  fixed == Len(msg) - Len(last.outcome.body) - 1
              IN /\ last.result.err.name = "Error"
                 /\ fixed >= 2
                 /\ SubSeq(msg, fixed - 1, Len(msg))
                      = <<"503", "-">> \o last.outcome.body \o <<")">>
                 /\ \A i \in 1..(fixed - 2), n \in 1..MAX_RETRIES : msg[i] # ToString(n)

C4_Witness ==
  /\ GaveUpOnLastAttempt
  /\ last.outcome.status = 503
  /\ last.outcome.body = <<"overloaded">>

\* C5: with an empty or white-space-only key no fetch is ever issued: a
\* direct call throws the configuration error, and a submission with a name
\* sets the configuration error, starts no call and does not navigate.
C5_NoFetchWithoutKey ==
  /\ [](IsBlank(groqApiKey)
         => /\ calls = <<>>
            /\ last.fetches = 0
            /\ ~isLoading
            /\ ~pushed.done
            /\ last.caller = "direct"
                 => /\ last.result.kind = "throw"
                    /\ last.result.err.message = MsgKeyNotSet)
  /\ [][(IsBlank(groqApiKey) /\ HandleSubmit /\ Trim(personName) # <<>>)
          => error' = ErrorOf(MsgKeyNotConfigured)]_vars

C5_Witness ==
  /\ groqApiKey = <<" ">>
  /\ error = ErrorOf(MsgKeyNotConfigured)
  /\ calls = <<>>

\* C6: at most one call started by a submission is in flight at any time,
\* and one is in flight exactly while isLoading holds.
C6_OneInFlight ==
  /\ Cardinality(SubmitCalls) <= 1
  /\ isLoading <=> SubmitCalls # {}

C6_Witness ==
  /\ isLoading
  /\ Len(calls) = 1
  /\ calls[1].pc = "wait"
  /\ calls[1].attempt = 2

\* ------------------------------------------------ claims on the list screen
HasFence(t) == \E i \in 1..Len(t) : StartsWithAt(t, i, Fence)
HasControl(t) == \E i \in 1..Len(t) : t[i] \in ControlChars

\* The effects have run to the end on a generated text, without an error.
AiSettled ==
  /\ Truthy(nsParams.aiResponse)
  /\ pending = {}
  /\ ~crashed

\* C7 (as claimed): every raw aiResponse gives at least one record, and with
\* an aiResponse and a person the screen ends with a non-empty list and
\* without the 'No Perspectives Found' panel.
C7_Claim ==
  AiSettled
    => /\ Len(ParseArticles(nsParams.aiResponse)) >= 1
       /\ Truthy(nsParams.person) => (Len(articles) >= 1 /\ ~ShowsEmpty)

\* C8 (as claimed): for every raw aiResponse the parse-and-normalize step
\* completes without raising.
C8_Claim == ~crashed

\* C9 (as claimed): for a raw text with fence markers and control characters
\* the sanitized text holds no control character and no fence marker.
C9_Claim ==
  LET raw == nsParams.aiResponse
  IN (AiSettled /\ HasFence(raw) /\ HasControl(raw))
       => /\ ~HasControl(Sanitize(raw))
          /\ ~HasFence(Sanitize(raw))

\* C10 (as claimed): a raw text that is a JSON array of N objects gives N
\* records, one that is a JSON object gives 1, and one that is no JSON gives
\* the one synthetic record of the cleaned text.
AllObjects(v) == \A i \in 1..Len(v.items) : v.items[i].t = "obj"

DecodeFails(raw) ==
  /\ Truthy(raw)
  /\ StartsWith(Sanitize(raw), "[") \/ StartsWith(Sanitize(raw), "{")
  /\ ~JsonParse(Sanitize(raw)).ok

C12_Claim ==
  \A i \in 1..Len(articles) :
    Truthy(articles[i].title) \/ Truthy(articles[i].originalTitle)

\* The text of s before the first position at which sep starts, all of s
\* when sep does not occur.
Before(s, sep) ==
  LET at == {i \in 1..(Len(s) - Len(sep) + 1) :
               \A k \in 1..Len(sep) : s[i + k - 1] = sep[k]}
  IN IF at = {} THEN s
     ELSE SubSeq(s, 1, (CHOOSE i \in at : \A j \in at : i <= j) - 1)

First(s, n) == IF Len(s) <= n THEN s ELSE SubSeq(s, 1, n)

Dots == <<".", ".", ".">>

\* C13: the title of a generated record with a non-empty body is the text
\* before the first period followed by a period ("Short line. Rest of
\* article..." gives "Short line."); when that text is longer than 80
\* characters the title is the first 60 characters of the body plus "...".
C13_TitleDerivation ==
  AiSettled =>
    \A i \in 1..Len(articles) :
      LET body == articles[i].generated
          fragment == Before(body, <<".">>)
      IN body # <<>> =>
           /\ Len(fragment) <= 80 => articles[i].title = fragment \o <<".">>
           /\ Len(fragment) > 80 => articles[i].title = First(body, 60) \o Dots
           /\ body = ShortLineBody => articles[i].title = SubSeq(ShortLineBody, 1, 11)

C13_Witness ==
  /\ AiSettled
  /\ Len(articles) = 2
  /\ articles[1].title = <<"S", "h", "o", "r", "t", " ", "l", "i", "n", "e", ".">>
  /\ Len(Before(articles[2].generated, <<".">>)) = 81
  /\ articles[2].title = Rep("x", 60) \o Dots

\* C14: the summary of a generated record is the first paragraph (the text
\* before the first blank line) when that has at most 200 characters, its
\* first 200 characters plus "..." when it has more; an empty first paragraph
\* gives way to the first line, and when that is empty too the summary is the
\* first 200 characters of the body plus "...".
C14_SummaryDerivation ==
  AiSettled =>
    \A i \in 1..Len(articles) :
      LET body == articles[i].generated
          paragraph == Before(body, <<"\n", "\n">>)
          line == Before(body, <<"\n">>)
          chosen == IF paragraph # <<>> THEN paragraph ELSE line
      IN articles[i].summary =
           IF chosen = <<>> THEN First(body, 200) \o Dots
           ELSE IF Len(chosen) <= 200 THEN chosen
           ELSE First(chosen, 200) \o Dots

C14_Witness ==
  /\ AiSettled
  /\ Len(articles) = 1
  /\ Len(Before(articles[1].generated, <<"\n", "\n">>)) = 201
  /\ Len(articles[1].generated) = 204
  /\ articles[1].summary = Rep("y", 200) \o Dots

\* C15: normalization of generated records is one to one and keeps the order:
\* once the effects ran, N decoded records are N articles, the article at
\* position i (from 0) has id String(i + 1), and the ids are pairwise distinct.
C15_Claim ==
  (Truthy(nsParams.aiResponse) /\ pending = {}) =>
    /\ Len(articles) = Len(ParseArticles(nsParams.aiResponse))
    /\ \A i \in 1..Len(articles) : articles[i].id = ToString(i)
    /\ \A i, j \in 1..Len(articles) : articles[i].id = articles[j].id => i = j

\* C16: when a submission's call gives up after the last attempt, the error
\* panel after a transport failure has the same title and the same
\* instructions as the panel after repeated 503 answers.
PanelAfter503 == ErrorPanel(ErrorOf(MsgUnavailable(503, <<>>)))

C16_Claim ==
  (/\ GaveUpOnLastAttempt
   /\ last.caller = "submit"
   /\ error = ErrorOf(last.result.err.message))
    => /\ ErrorPanel(error).shown
       /\ ErrorPanel(error).title = PanelAfter503.title
       /\ ErrorPanel(error).instructions = PanelAfter503.instructions

\* The list screen was opened without generated text and its vendor request
\* has settled.
NewsLoaded == ~Truthy(nsParams.aiResponse) /\ pending = {} /\ newsLoads = 0

\* C17: with RAPIDAPI_KEY absent the list screen, once its vendor request
\* settled, shows a configuration error (as the home screen does for an
\* absent GROQ_API_KEY), not a crash and not a silent failure.
C17_Claim ==
  (rapidapi_key = <<>> /\ NewsLoaded) => NewsView = "Configuration Required"

\* C18: fetchNewsArticles resolves in every case, to an empty array on a
\* failure, and no loadRealNews call raises.
C18_Claim ==
  /\ \A o \in VendorOutcomes :
       o.kind \in {"reject", "nonjson", "null", "nodata"}
         => fetchNewsArticles(o) = [array |-> TRUE, items |-> <<>>]
  /\ ~unhandled

\* The line of s after its last line break, trailing white space set aside.
LastLine(s) ==
  LET t == TrimEnd(s)
      breaks == {i \in 1..Len(t) : t[i] = "\n"}
  IN IF breaks = {} THEN t
     ELSE SubSeq(t, (CHOOSE i \in breaks : \A j \in breaks : j <= i) + 1, Len(t))

\* C19: generateFullAIArticle calls a persona template only for a person that
\* is exactly 'Albert Einstein', 'Oprah Winfrey' or 'Elon Musk'; for every
\* other person, absent or differing in case included, it calls the Default
\* template.
C19_Claim ==
  asBody.rendered =>
    /\ ~asBody.out.threw
    /\ asBody.out.template =
         (CASE asParams.person = EinsteinKey -> "Albert Einstein"
            [] asParams.person = OprahKey -> "Oprah Winfrey"
            [] asParams.person = MuskKey -> "Elon Musk"
            [] OTHER -> "Default")

\* C20: for every person, title and summary the text generateFullAIArticle
\* returns contains the title and the summary it was given; for 'Albert
\* Einstein' its last line contains "Albert Einstein".
C20_Claim ==
  asBody.rendered =>
    /\ ~asBody.out.threw
    /\ Embeds(asBody.out.text, asBody.title)
    /\ Embeds(asBody.out.text, asBody.summary)
    /\ asParams.person = EinsteinKey => Embeds(LastLine(asBody.out.text), EinsteinKey)

\* C21: an article made from a vendor record has aiGenerated false and a
\* non-empty image; a record whose thumbnail_url is missing or empty gets the
\* fixed placeholder image.
VendorListed == ~Truthy(nsParams.aiResponse)

C21_VendorImageFallback ==
  VendorListed =>
    \A i \in 1..Len(articles) :
      /\ articles[i].aiGenerated = FALSE
      /\ articles[i].imageUrl # <<>>
      /\ articles[i].imageUrl # Undefined
      /\ articles[i].originalTitle \in {<<>>, <<"E">>}
           => articles[i].imageUrl = <<"pexels-163064">>
      /\ articles[i].originalTitle = <<"T">> => articles[i].imageUrl = <<"thumb-1">>

C21_Witness ==
  /\ VendorListed
  /\ Len(articles) = 1
  /\ articles[1].originalTitle = <<"E">>
  /\ articles[1].imageUrl = <<"pexels-163064">>
  /\ articles[1].aiGenerated = FALSE

\* C22: a refresh on the list screen replaces the article state: the pull
\* starts a load (the vendor request or the derivation from the generated
\* text) whose result becomes the list.
C22_Claim ==
  [][(~refreshing /\ refreshing')
       => (newsLoads' > newsLoads \/ pending' # {} \/ articles' # articles)]_vars

\* C23: whenever the list is rendered from generated text, an article whose
\* body is empty has the title "<person>'s Perspective on Current Events"
\* with the person parameter the screen was opened with, never with another
\* (for instance the empty) name.
C23_Claim ==
  (Truthy(nsParams.aiResponse) /\ NewsView = "list") =>
    \A i \in 1..Len(articles) :
      articles[i].generated = <<>>
        => articles[i].title = nsParams.person \o PerspectiveSuffix

\* C24: the article screen uses, for an absent parameter, its fallback, and
\* for an array-wrapped parameter the first element: the hero image, the
\* title and the content passed to generateFullAIArticle are those of the
\* first elements.
C24_Claim ==
  asBody.rendered =>
    /\ asBody.hero = asParams.imageUrl
    /\ asBody.title = DisplayTitle(asParams)
    /\ asBody.summary = parseAIContent(asParams.summary)

\* C25: the image of a generated article depends only on its position: the
\* article at index i (from 0) has the entry i mod 5 of the fixed rotation of
\* five images.
Rotation ==
  << <<"pexels-518543">>, <<"pexels-1591056">>, <<"pexels-1591447">>,
     <<"pexels-1591061">>, <<"pexels-163064">> >>

C25_ImageByPosition ==
  AiSettled =>
    \A i \in 1..Len(articles) : articles[i].imageUrl = Rotation[((i - 1) % 5) + 1]

C25_Witness ==
  /\ AiSettled
  /\ Len(articles) = 7
  /\ articles[5].imageUrl = <<"pexels-163064">>
  /\ articles[6].imageUrl = <<"pexels-518543">>
  /\ articles[7].imageUrl = <<"pexels-1591056">>

\* C26: once the list screen holds a non-empty aiResponse and its effects
\* ran, the articles are the ones derived from that aiResponse; a vendor
\* request started before, while aiResponse was absent, does not replace them
\* when it settles.
C26_Claim ==
  (Truthy(nsParams.aiResponse) /\ pending = {} /\ ~crashed)
    => articles = MapArticles(ParseArticles(nsParams.aiResponse), selectedPerson).articles

\* C27: a call goes on to another attempt only after a 503 or a rejected
\* fetch; an attempt answered with a success status is the last one of its
\* call, whatever the body decodes to.
C27_Claim ==
  /\ \A i \in 1..Len(calls) : \A j \in 1..Len(calls[i].statuses) :
       /\ Retryable(calls[i].statuses[j])
       /\ ~ResponseOk(calls[i].statuses[j])
  /\ \A j \in 1..(Len(last.statuses) - 1) :
       /\ Retryable(last.statuses[j])
       /\ ~ResponseOk(last.statuses[j])

\* C28: isLoading is true only while a submission's call is in flight, and
\* when every fetch settles and every timer fires it becomes false again, on
\* the return and on every throw of groqResponse; the submit button is then
\* enabled again.
C28_LoadingEnds ==
  /\ [](isLoading => \E i \in 1..Len(calls) : calls[i].caller = "submit")
  /\ isLoading ~> (~isLoading /\ SubmitEnabled /\ last.caller = "submit")

C28_Witness ==
  /\ ~isLoading
  /\ SubmitEnabled
  /\ last.caller = "submit"
  /\ last.result.kind = "return"
  /\ Len(last.waits) = 2

\* C29: the home screen navigates only when a submission's call returned,
\* to /news with the trimmed entered name and the returned text; a call that
\* throws leaves the navigation alone and puts its message in the error
\* state; with a blank name or a missing key nothing navigates.
C29_NavigateOnSuccessOnly ==
  /\ [][pushed' # pushed
          => /\ last' # last
             /\ last'.caller = "submit"
             /\ last'.result.kind = "return"
             /\ pushed' = [done |-> TRUE, pathname |-> "/news",
                           person |-> Trim(personName),
                           aiResponse |-> last'.result.content]
             /\ ~IsBlank(personName)
             /\ ~IsBlank(groqApiKey)]_vars
  /\ [][(last' # last /\ last'.caller = "submit" /\ last'.result.kind = "throw")
          => /\ pushed' = pushed
             /\ error' = ErrorOf(last'.result.err.message)]_vars
  /\ []((IsBlank(groqApiKey) \/ harness # "app") => pushed = NoPush)

C29_Witness ==
  /\ pushed.done
  /\ personName = <<" ", "A">>
  /\ pushed.person = <<"A">>
  /\ pushed.aiResponse = <<"a", ".">>
  /\ last.result.kind = "return"

\* C30: a groqResponse call never fetches more than 3 times nor waits more
\* than twice; when every fetch settles and every timer fires it ends, and it
\* ends by returning [model, content] or by throwing, never by leaving the
\* loop with undefined.
C30_CallTerminates ==
  /\ [](\A i \in 1..Len(calls) :
          /\ calls[i].fetches <= 3
          /\ Len(calls[i].waits) <= 2
          /\ calls[i].attempt <= 3)
  /\ [](/\ last.fetches <= 3
        /\ Len(last.waits) <= 2
        /\ last.result.kind \in {"none", "return", "throw"}
        /\ last.result.kind = "return"
             => /\ last.result.model = "llama3-8b-8192"
                /\ last.result.content = last.outcome.content
        /\ last.result.kind = "throw" => last.result.err # NoErr)
  /\ (calls # <<>>) ~> (calls = <<>> /\ last.result.kind \in {"return", "throw"})

C30_Witness ==
  /\ calls = <<>>
  /\ last.caller = "direct"
  /\ last.result.kind = "throw"
  /\ last.fetches = 3
  /\ Len(last.waits) = 2

====
